---------------------------- MODULE Spec2Model ----------------------------
(***************************************************************************)
(* A model of the two header tools of the UE4SS build guide:               *)
(*   Tools/dump_converter.py  (HPPConverter)                               *)
(*   Tools/consolidator.py    (HeaderConsolidator)                         *)
(*                                                                         *)
(* Text is modelled as it is in the program: a string is a sequence of     *)
(* one-character strings, and every regular expression and string method   *)
(* the code uses is an operator over such sequences.  A Python dict is a   *)
(* function; where the code depends on the dict's insertion order the      *)
(* order is kept beside it as a sequence of keys.                          *)
(***************************************************************************)
EXTENDS Integers, Sequences, FiniteSets, TLC

VARIABLES
    pc,               \* position of the running tool
    classes,          \* HeaderConsolidator.classes: name -> block text
    structs,          \* HeaderConsolidator.structs
    enums,            \* HeaderConsolidator.enums
    dependencies,     \* HeaderConsolidator.dependencies: name -> set of names
    depOrder,         \* insertion order of the keys of dependencies
    processed,        \* sort_declarations: local set processed
    ordered_content,  \* sort_declarations: local dict ordered_content
    scans,            \* number of executions of the for loop of sort_declarations
    emitLog,          \* history: the class emissions, in order
    nfiles,           \* number of process_file calls made
    input,            \* argument of the pure function under check
    result            \* its result

vars == <<pc, classes, structs, enums, dependencies, depOrder, processed,
          ordered_content, scans, emitLog, nfiles, input, result>>

---------------------------------------------------------------------------
(* Bounds of the model *)

\* largest pool of pending classes drawn for sort_declarations
MaxClasses == 3
\* largest number of dependency edges in a drawn pool
MaxEdges == 2
\* largest number of files given to process_file before the sort
MaxFiles == 2
\* largest number of pointer markers appended to a drawn type name
MaxStars == 1
\* deepest nesting of generic wrappers around a drawn type name
MaxNest == 2
\* largest number of lines in a text drawn for extract_block or read from a
\* struct file
MaxLines == 3
\* largest start position drawn for extract_block
MaxStart == 1

---------------------------------------------------------------------------
(* Characters and strings *)

Digits == {"0","1","2","3","4","5","6","7","8","9"}
UpperSeq == <<"A","B","C","D","E","F","G","H","I","J","K","L","M","N","O","P","Q","R","S","T","U","V","W","X","Y","Z">>
LowerSeq == <<"a","b","c","d","e","f","g","h","i","j","k","l","m","n","o","p","q","r","s","t","u","v","w","x","y","z">>
Range(s) == {s[i] : i \in 1..Len(s)}
UpperChars == Range(UpperSeq)
LowerChars == Range(LowerSeq)
\* \w of the re module, on the ASCII characters the model uses
WordChars == UpperChars \cup LowerChars \cup Digits \cup {"_"}
\* \s of the re module
SpaceChars == {" ", "\n", "\t"}
\* [A-F0-9] and, under re.IGNORECASE, [0-9A-Fa-f]
HexUpper == Digits \cup {"A","B","C","D","E","F"}
HexAny == HexUpper \cup {"a","b","c","d","e","f"}

\* the characters of the model in code-point order (what sorted() compares)
AsciiOrder == <<"\n"," ","&","(",")","*",",","/","0","1","2","3","4","5","6","7","8","9",":",";","<",">","A","B","C","D","E","F","G","H","I","J","K","L","M","N","O","P","Q","R","S","T","U","V","W","X","Y","Z","_","a","b","c","d","e","f","g","h","i","j","k","l","m","n","o","p","q","r","s","t","u","v","w","x","y","z","{","}">>
CharSet == Range(AsciiOrder)
CodeOf[c \in CharSet] == CHOOSE i \in 1..Len(AsciiOrder) : AsciiOrder[i] = c

\* str.lower() on one character
LowerCh(c) ==
    IF c \in UpperChars
    THEN LowerSeq[CHOOSE i \in 1..26 : UpperSeq[i] = c]
    ELSE c
\* str.lower()
Lower(s) == [i \in 1..Len(s) |-> LowerCh(s[i])]

\* s[i:] with a 1-based i
Drop(s, i) == SubSeq(s, i, Len(s))
\* str.startswith
StartsWith(s, p) == Len(p) <= Len(s) /\ \A j \in 1..Len(p) : s[j] = p[j]
\* str.endswith
EndsWith(s, p) ==
    Len(p) <= Len(s) /\ \A j \in 1..Len(p) : s[Len(s) - Len(p) + j] = p[j]
\* whether p occurs in s at the 1-based position i
At(s, i, p) ==
    /\ i >= 1
    /\ i + Len(p) - 1 <= Len(s)
    /\ \A j \in 1..Len(p) : s[i + j - 1] = p[j]
\* sub in s
Contains(s, sub) == \E i \in 1..(Len(s) - Len(sub) + 1) : At(s, i, sub)
\* str.count of a one-character string
Count(s, c) == Cardinality({i \in 1..Len(s) : s[i] = c})

\* end (exclusive) of the longest run of characters of set starting at i
RECURSIVE SpanEnd(_, _, _)
SpanEnd(s, i, set) ==
    IF i <= Len(s) /\ s[i] \in set THEN SpanEnd(s, i + 1, set) ELSE i

\* str.rstrip(c) for a one-character c
RECURSIVE RStrip(_, _)
RStrip(s, c) ==
    IF Len(s) > 0 /\ s[Len(s)] = c THEN RStrip(SubSeq(s, 1, Len(s) - 1), c) ELSE s

\* str.split('\n'): always at least one piece
RECURSIVE SplitLines(_)
SplitLines(s) ==
    IF \A i \in 1..Len(s) : s[i] # "\n"
    THEN <<s>>
    ELSE LET k == CHOOSE i \in 1..Len(s) :
                      s[i] = "\n" /\ \A j \in 1..(i - 1) : s[j] # "\n"
         IN  <<SubSeq(s, 1, k - 1)>> \o SplitLines(Drop(s, k + 1))

\* '\n'.join(lines)
RECURSIVE JoinLines(_)
JoinLines(lines) ==
    IF Len(lines) = 0 THEN <<>>
    ELSE IF Len(lines) = 1 THEN lines[1]
    ELSE lines[1] \o <<"\n">> \o JoinLines(Tail(lines))

\* the least element of a non-empty set of integers
Min(S) == CHOOSE x \in S : \A y \in S : x <= y

\* str.replace(old, new), old not empty: leftmost occurrences, not overlapping
RECURSIVE Replace(_, _, _)
Replace(s, old, new) ==
    LET hits == {i \in 1..(Len(s) - Len(old) + 1) : At(s, i, old)}
    IN  IF hits = {} THEN s
        ELSE SubSeq(s, 1, Min(hits) - 1) \o new
                 \o Replace(Drop(s, Min(hits) + Len(old)), old, new)

\* the order of str: lexicographic by code point
RECURSIVE StrLess(_, _)
StrLess(a, b) ==
    IF Len(b) = 0 THEN FALSE
    ELSE IF Len(a) = 0 THEN TRUE
    ELSE IF a[1] = b[1] THEN StrLess(Tail(a), Tail(b))
    ELSE CodeOf[a[1]] < CodeOf[b[1]]

\* sorted() of a set of strings
RECURSIVE Sorted(_)
Sorted(S) ==
    IF S = {} THEN <<>>
    ELSE LET m == CHOOSE x \in S : \A y \in S \ {x} : StrLess(x, y)
         IN  <<m>> \o Sorted(S \ {m})

\* concatenation of a sequence of strings
RECURSIVE Concat(_)
Concat(ss) == IF Len(ss) = 0 THEN <<>> ELSE ss[1] \o Concat(Tail(ss))

\* the permutations of a set, as sequences
RECURSIVE Perms(_)
Perms(S) ==
    IF S = {} THEN {<<>>}
    ELSE UNION {{<<x>> \o p : p \in Perms(S \ {x})} : x \in S}

\* a dict with no keys
EmptyDict == <<>>

---------------------------------------------------------------------------
(* HPPConverter: tables of __init__ *)

\* self.type_mappings
TypeMappings ==
    << <<<<"b","o","o","l">>, <<"b","o","o","l">>>>, <<<<"f","l","o","a","t">>, <<"f","l","o","a","t">>>>, <<<<"i","n","t","3","2">>, <<"i","n","t","3","2","_","t">>>>,
       <<<<"u","i","n","t","8">>, <<"u","i","n","t","8","_","t">>>>, <<<<"u","i","n","t","1","6">>, <<"u","i","n","t","1","6","_","t">>>>, <<<<"u","i","n","t","3","2">>, <<"u","i","n","t","3","2","_","t">>>>,
       <<<<"u","i","n","t","6","4">>, <<"u","i","n","t","6","4","_","t">>>>, <<<<"i","n","t","8">>, <<"i","n","t","8","_","t">>>>, <<<<"i","n","t","1","6">>, <<"i","n","t","1","6","_","t">>>>,
       <<<<"i","n","t","6","4">>, <<"i","n","t","6","4","_","t">>>>,
       <<<<"F","S","t","r","i","n","g">>, <<"R","C",":",":","U","n","r","e","a","l",":",":","F","S","t","r","i","n","g">>>>, <<<<"F","N","a","m","e">>, <<"R","C",":",":","U","n","r","e","a","l",":",":","F","N","a","m","e">>>>,
       <<<<"F","T","e","x","t">>, <<"R","C",":",":","U","n","r","e","a","l",":",":","F","T","e","x","t">>>>, <<<<"F","V","e","c","t","o","r">>, <<"R","C",":",":","U","n","r","e","a","l",":",":","F","V","e","c","t","o","r">>>>,
       <<<<"F","R","o","t","a","t","o","r">>, <<"R","C",":",":","U","n","r","e","a","l",":",":","F","R","o","t","a","t","o","r">>>>,
       <<<<"F","T","r","a","n","s","f","o","r","m">>, <<"R","C",":",":","U","n","r","e","a","l",":",":","F","T","r","a","n","s","f","o","r","m">>>>,
       <<<<"F","L","i","n","e","a","r","C","o","l","o","r">>, <<"R","C",":",":","U","n","r","e","a","l",":",":","F","L","i","n","e","a","r","C","o","l","o","r">>>>,
       <<<<"U","S","t","a","t","i","c","M","e","s","h","*">>, <<"R","C",":",":","U","n","r","e","a","l",":",":","U","S","t","a","t","i","c","M","e","s","h","*">>>>,
       <<<<"A","A","c","t","o","r","*">>, <<"R","C",":",":","U","n","r","e","a","l",":",":","A","A","c","t","o","r","*">>>>,
       <<<<"U","O","b","j","e","c","t","*">>, <<"R","C",":",":","U","n","r","e","a","l",":",":","U","O","b","j","e","c","t","*">>>> >>

\* t in self.type_mappings and self.type_mappings[t]
IsMapped(t) == \E i \in 1..Len(TypeMappings) : TypeMappings[i][1] = t
Mapped(t) == TypeMappings[CHOOSE i \in 1..Len(TypeMappings) : TypeMappings[i][1] = t][2]

\* self.ignored_types
IgnoredTypes ==
    {<<"F","P","o","i","n","t","e","r","T","o","U","b","e","r","G","r","a","p","h","F","r","a","m","e">>, <<"T","e","x","t","u","r","e","F","i","l","t","e","r">>, <<"E","T","i","m","e","l","i","n","e","D","i","r","e","c","t","i","o","n">>,
     <<"E","C","o","l","l","i","s","i","o","n","C","h","a","n","n","e","l">>, <<"F","C","o","n","n","e","c","t","i","o","n","C","a","l","l","b","a","c","k","P","r","o","x","y","O","n","S","u","c","c","e","s","s">>,
     <<"F","C","h","e","c","k","G","e","o","T","r","a","c","k","i","n","g","A","v","a","i","l","a","b","i","l","i","t","y","A","s","y","n","c","T","a","s","k","B","l","u","e","p","r","i","n","t","P","r","o","x","y","O","n","S","u","c","c","e","s","s">>,
     <<"T","S","o","f","t","C","l","a","s","s","P","t","r">>, <<"T","S","o","f","t","O","b","j","e","c","t","P","t","r">>, <<"F","J","S","O","N","P","a","r","s","e","r","A","s","y","n","c","O","b","j","e","c","t","T","o","S","t","r","i","n","g","O","n","S","u","c","c","e","s","s">>,
     <<"F","B","o","x">>, <<"F","V","e","c","t","o","r","4">>, <<"F","G","u","i","d">>}

\* the prefixes of lines 62 and 150
CorePrefixes == {<<"U","O","b","j","e","c","t">>, <<"A","A","c","t","o","r">>, <<"U","A","c","t","o","r","C","o","m","p","o","n","e","n","t">>}

\* the number of hexadecimal digits of a GUID suffix in clean_name
GuidLen == 32

---------------------------------------------------------------------------
(* HPPConverter.clean_name, clean_class_name, convert_type *)

\* start of the longest run of characters of set that ends at position i
RECURSIVE SpanStart(_, _, _)
SpanStart(s, i, set) ==
    IF i >= 1 /\ s[i] \in set THEN SpanStart(s, i - 1, set) ELSE i + 1

\* re.sub(r'_\d+_[A-F0-9]{32}$', '', name), for a name without a line break
StripGuid(name) ==
    LET n == Len(name)
        under == n - GuidLen
        digits == SpanStart(name, under - 1, Digits)
    IN  IF /\ under >= 3
           /\ \A i \in (under + 1)..n : name[i] \in HexUpper
           /\ name[under] = "_"
           /\ digits <= under - 1
           /\ digits >= 2
           /\ name[digits - 1] = "_"
        THEN SubSeq(name, 1, digits - 2)
        ELSE name

\* re.sub(r'_\d+$', '', name), for a name without a line break
StripNumber(name) ==
    LET digits == SpanStart(name, Len(name), Digits)
    IN  IF digits <= Len(name) /\ digits >= 2 /\ name[digits - 1] = "_"
        THEN SubSeq(name, 1, digits - 2)
        ELSE name

\* HPPConverter.clean_name
clean_name(name) == StripNumber(StripGuid(name))

\* str.startswith with a tuple of prefixes
StartsWithAny(s, prefixes) == \E p \in prefixes : StartsWith(s, p)

\* HPPConverter.clean_class_name
clean_class_name(name) ==
    IF Len(name) = 0 THEN name
    ELSE IF StartsWithAny(name, CorePrefixes) THEN name
    ELSE LET fixed == IF name[1] \in Digits THEN <<"C">> \o name ELSE name
         IN  IF (StartsWith(fixed, <<"A">>) \/ StartsWith(fixed, <<"U">>)) /\ EndsWith(fixed, <<"_","C">>)
             THEN SubSeq(fixed, 2, Len(fixed) - 2)
             ELSE fixed

\* results of the converter's functions: a string, None, or an exception
Ok(v) == [kind |-> "ok", val |-> v]
None == [kind |-> "none", val |-> <<>>]
Raise == [kind |-> "raise", val |-> <<"A","t","t","r","i","b","u","t","e","E","r","r","o","r">>]
\* the truth value if x: gives a returned value
Truthy(r) == r.kind = "ok" /\ r.val # <<>>

\* a membership test that takes only the exact names
IsIgnored_ExactOnly(ue_type) == ue_type \in IgnoredTypes

\* line 127: any(ignored in ue_type for ignored in self.ignored_types)
IsIgnored(ue_type) == \E ignored \in IgnoredTypes : Contains(ue_type, ignored)

\* line 131: re.sub(r'^class\s+', '', ue_type)
StripClassPrefix(t) ==
    IF StartsWith(t, <<"c","l","a","s","s">>) /\ SpanEnd(t, 6, SpaceChars) > 6
    THEN Drop(t, SpanEnd(t, 6, SpaceChars))
    ELSE t

\* re.search(prefix + r'(.+)>', t) for a t that starts with prefix and holds
\* no line break: the group runs to the last > and is not empty
GenericArg(t, prefix) ==
    LET ends == {j \in (Len(prefix) + 2)..Len(t) : t[j] = ">"}
    IN  IF ends = {} THEN [found |-> FALSE, arg |-> <<>>]
        ELSE [found |-> TRUE,
              arg |-> SubSeq(t, Len(prefix) + 1,
                             (CHOOSE j \in ends : \A k \in ends : k <= j) - 1)]

\* HPPConverter.convert_type
RECURSIVE convert_type(_)
convert_type(ue_type) ==
    IF IsIgnored(ue_type) THEN None
    ELSE
    LET t == StripClassPrefix(ue_type)
        \* lines 134-139 and 142-147: .group(1) of a failed search raises
        generic(prefix, wrapper) ==
            LET a == GenericArg(t, prefix)
                inner == convert_type(a.arg)
            IN  IF ~a.found THEN Raise
                ELSE IF inner.kind = "raise" THEN Raise
                ELSE IF Truthy(inner) THEN Ok(wrapper \o inner.val \o <<">">>)
                ELSE None
        cleaned == clean_class_name(t)
    IN  IF StartsWith(t, <<"T","A","r","r","a","y","<">>) THEN generic(<<"T","A","r","r","a","y","<">>, <<"R","C",":",":","U","n","r","e","a","l",":",":","T","A","r","r","a","y","<">>)
        ELSE IF StartsWith(t, <<"T","S","u","b","c","l","a","s","s","O","f","<">>)
             THEN generic(<<"T","S","u","b","c","l","a","s","s","O","f","<">>, <<"R","C",":",":","U","n","r","e","a","l",":",":","T","S","u","b","c","l","a","s","s","O","f","<">>)
        ELSE IF StartsWithAny(t, CorePrefixes) THEN Ok(t)
        ELSE IF IsMapped(t) THEN Ok(Mapped(t))
        ELSE IF IsMapped(RStrip(t, "*")) THEN Ok(Mapped(RStrip(t, "*")) \o <<"*">>)
        ELSE IF StartsWith(t, <<"T","E","n","u","m","A","s","B","y","t","e","<">>)
             THEN (IF GenericArg(t, <<"T","E","n","u","m","A","s","B","y","t","e","<">>).found
                   THEN Ok(GenericArg(t, <<"T","E","n","u","m","A","s","B","y","t","e","<">>).arg)
                   ELSE Raise)
        ELSE IF cleaned # t THEN Ok(cleaned)
        ELSE Ok(t)

---------------------------------------------------------------------------
(* HPPConverter.convert_line_to_field, convert_struct_field *)

\* [\w<>*:]
TypeChars == WordChars \cup {"<", ">", "*", ":"}

NoField == [ok |-> FALSE, type |-> <<>>, name |-> <<>>, offset |-> <<>>]

\* the rest of the field patterns after the type group, which ends before e:
\* \s+(\w+);?\s*//\s*(0x[0-9A-F]+) under re.IGNORECASE
FieldTail(line, e) ==
    LET name    == SpanEnd(line, e, SpaceChars)
        nameEnd == SpanEnd(line, name, WordChars)
        semi    == IF At(line, nameEnd, <<";">>) THEN nameEnd + 1 ELSE nameEnd
        slashes == SpanEnd(line, semi, SpaceChars)
        zero    == SpanEnd(line, slashes + 2, SpaceChars)
        hex     == zero + 2
        hexEnd  == SpanEnd(line, hex, HexAny)
    IN  IF /\ name > e
           /\ nameEnd > name
           /\ At(line, slashes, <<"/","/">>)
           /\ (At(line, zero, <<"0","x">>) \/ At(line, zero, <<"0","X">>))
           /\ hexEnd > hex
        THEN [ok |-> TRUE, name |-> SubSeq(line, name, nameEnd - 1),
              offset |-> SubSeq(line, zero, hexEnd - 1)]
        ELSE [ok |-> FALSE, name |-> <<>>, offset |-> <<>>]

\* re.match of \s*([\w<>*:]+(?:\s*[*&])?)\s+(\w+);?\s*//\s*(0x[0-9A-F]+) with
\* re.IGNORECASE (line 233).  The pattern of line 111 differs only in its name
\* group, \w+(?:_\d+)?(?:_[A-F0-9]{32})?, whose greedy \w+ takes the same
\* characters.  The optional [*&] is tried first, then the type without it.
FieldLineMatch(line) ==
    LET type    == SpanEnd(line, 1, SpaceChars)
        typeEnd == SpanEnd(line, type, TypeChars)
        mark    == SpanEnd(line, typeEnd, SpaceChars)
        marked  == mark <= Len(line) /\ line[mark] \in {"*", "&"}
        withM   == FieldTail(line, mark + 1)
        without == FieldTail(line, typeEnd)
    IN  IF typeEnd = type THEN NoField
        ELSE IF marked /\ withM.ok
             THEN [ok |-> TRUE, type |-> SubSeq(line, type, mark),
                   name |-> withM.name, offset |-> withM.offset]
        ELSE IF without.ok
             THEN [ok |-> TRUE, type |-> SubSeq(line, type, typeEnd - 1),
                   name |-> without.name, offset |-> without.offset]
        ELSE NoField

\* the f-string of lines 122 and 243
FieldText(offset, type, name) ==
    <<" "," "," "," ","F","I","E","L","D","(">> \o offset \o <<","," ">> \o type \o <<","," ">> \o name \o <<")",";","\n">>

\* HPPConverter.convert_line_to_field
convert_line_to_field(line) ==
    LET m == FieldLineMatch(line)
        converted_type == convert_type(m.type)
    IN  IF ~m.ok THEN None
        ELSE IF converted_type.kind = "raise" THEN Raise
        ELSE IF ~Truthy(converted_type) THEN None
        ELSE Ok(FieldText(m.offset, converted_type.val, m.name))

\* HPPConverter.convert_struct_field
convert_struct_field(line) ==
    LET m == FieldLineMatch(line)
        converted_type == convert_type(m.type)
    IN  IF ~m.ok THEN None
        ELSE IF converted_type.kind = "raise" THEN Raise
        ELSE IF ~Truthy(converted_type) THEN None
        ELSE Ok(FieldText(m.offset, converted_type.val, clean_name(m.name)))

---------------------------------------------------------------------------
(* The converter's functions on drawn field lines *)

\* the generic wrappers convert_type knows
Wrappers == {<<"T","A","r","r","a","y">>, <<"T","S","u","b","c","l","a","s","s","O","f">>, <<"T","E","n","u","m","A","s","B","y","t","e">>}

\* type names that are neither ignored nor wrapped
PlainTypes ==
    {<<"i","n","t","3","2">>, <<"b","o","o","l">>, <<"F","S","t","r","i","n","g">>, <<"F","V","e","c","t","o","r">>, <<"A","A","c","t","o","r">>, <<"U","O","b","j","e","c","t">>, <<"U","S","t","a","t","i","c","M","e","s","h">>,
     <<"U","M","y","I","t","e","m","_","C">>, <<"A","E","n","e","m","y","_","C">>, <<"A","1","D","o","o","r","_","C">>, <<"U","2","_","C">>, <<"9","L","i","v","e","s">>, <<"F","C","u","s","t","o","m">>, <<"E","K","i","n","d">>,
     <<"c","l","a","s","s">>}

\* the sequences over S of length at most n
RECURSIVE SeqsUpTo(_, _)
SeqsUpTo(S, n) ==
    IF n = 0 THEN {<<>>}
    ELSE SeqsUpTo(S, n - 1)
         \cup {Append(q, x) : q \in {r \in SeqsUpTo(S, n - 1) : Len(r) = n - 1}, x \in S}

\* k pointer markers
Stars(k) == [i \in 1..k |-> "*"]

\* the token: the base name with its pointer markers, inside the wrappers
\* wraps[1] (innermost) .. wraps[Len(wraps)]; an open token lacks the last >
RECURSIVE Wrapped(_, _)
Wrapped(core, wraps) ==
    IF Len(wraps) = 0 THEN core
    ELSE Wrapped(wraps[1] \o <<"<">> \o core \o <<">">>, Tail(wraps))
TokenOf(base, stars, wraps, closed) ==
    LET t == Wrapped(base \o Stars(stars), wraps)
    IN  IF closed THEN t ELSE SubSeq(t, 1, Len(t) - 1)

\* field names and offsets of the drawn lines
FieldNames ==
    {<<"H","e","a","l","t","h">>, <<"T","a","r","g","e","t","A","c","t","o","r","_","2","_","1","A","2","B","3","C","4","D","5","E","6","F","7","8","9","0","A","B","C","D","E","F","1","2","3","4","5","6","7","8","9","0">>, <<"C","o","u","n","t","_","1","2">>,
     <<"S","l","o","t","_","3","_","0","1","2","3","4","5","6","7","8","9","a","b","c","d","e","f","0","1","2","3","4","5","6","7","8","9","a","b","c","d","e","f">>, <<"7","U","p">>, <<"M","e","s","h","_","0","_","7">>}
Offsets == {<<"0","x","0","1","2","0">>, <<"0","X","1","f">>}
DefaultName == <<"H","e","a","l","t","h">>
DefaultOffset == <<"0","x","0","1","2","0">>

\* the field line of the dump for a type token, a name and an offset
LineOf(token, name, offset) == token \o <<" ">> \o name \o <<";"," ","/","/"," ">> \o offset

\* the drawn inputs: every token with one name, and every name with few tokens
TypeInputs ==
    {[base |-> b, stars |-> k, wraps |-> w, closed |-> c,
      token |-> TokenOf(b, k, w, c), name |-> DefaultName, offset |-> DefaultOffset] :
        b \in IgnoredTypes \cup PlainTypes \cup {<<>>}, k \in 0..MaxStars,
        w \in SeqsUpTo(Wrappers, MaxNest), c \in BOOLEAN}
NameInputs ==
    {[base |-> b, stars |-> 1, wraps |-> <<>>, closed |-> TRUE,
      token |-> TokenOf(b, 1, <<>>, TRUE), name |-> n, offset |-> o] :
        b \in {<<"A","A","c","t","o","r">>, <<"F","G","u","i","d">>, <<"U","M","y","I","t","e","m","_","C">>}, n \in FieldNames, o \in Offsets}
ConvertInputs ==
    {i \in TypeInputs : i.closed \/ Len(i.wraps) > 0} \cup NameInputs

InitConvert ==
    /\ input \in ConvertInputs
    /\ result = [op |-> "", kind |-> "", val |-> <<>>]
    /\ pc = "ready"
    /\ classes = EmptyDict
    /\ structs = EmptyDict
    /\ enums = EmptyDict
    /\ dependencies = EmptyDict
    /\ depOrder = <<>>
    /\ processed = {}
    /\ ordered_content = EmptyDict
    /\ scans = 0
    /\ emitLog = <<>>
    /\ nfiles = 0

\* what a call leaves in result
Returned(op, r) == [op |-> op, kind |-> r.kind, val |-> r.val]

\* the variables of the consolidator
consVars == <<classes, structs, enums, dependencies, depOrder, processed,
              ordered_content, scans, emitLog, nfiles>>

ConvertType ==
    /\ pc = "ready"
    /\ result' = Returned("convert_type", convert_type(input.token))
    /\ pc' = "done"
    /\ UNCHANGED <<consVars, input>>

CleanClassName ==
    /\ pc = "ready"
    /\ result' = Returned("clean_class_name", Ok(clean_class_name(input.token)))
    /\ pc' = "done"
    /\ UNCHANGED <<consVars, input>>

ConvertLineToField ==
    /\ pc = "ready"
    /\ result' = Returned("convert_line_to_field",
                      convert_line_to_field(LineOf(input.token, input.name, input.offset)))
    /\ pc' = "done"
    /\ UNCHANGED <<consVars, input>>

ConvertStructField ==
    /\ pc = "ready"
    /\ result' = Returned("convert_struct_field",
                      convert_struct_field(LineOf(input.token, input.name, input.offset)))
    /\ pc' = "done"
    /\ UNCHANGED <<consVars, input>>

ConvertNext == ConvertType \/ CleanClassName \/ ConvertLineToField \/ ConvertStructField

SpecConvert == InitConvert /\ [][ConvertNext]_vars

---------------------------------------------------------------------------
(* HPPConverter.process_struct_file *)

\* the opening line written for a struct
StructOpening(struct_name) == <<"s","t","r","u","c","t"," ">> \o struct_name \o <<" ","{","\n">>
\* the closing line written for a struct
StructClosing == <<"}",";","\n","\n">>

\* the for loop of lines 90-104, from the k-th line on; the value is the
\* returned list, or the error that leaves convert_struct_field
RECURSIVE StructLoop(_, _, _, _, _)
StructLoop(struct_name, lines, k, in_struct, struct_lines) ==
    IF k > Len(lines) THEN [kind |-> "ok", val |-> struct_lines]
    ELSE LET line == lines[k]
         IN  IF Contains(line, <<"s","t","r","u","c","t"," ">> \o struct_name)
             THEN StructLoop(struct_name, lines, k + 1, TRUE,
                             Append(struct_lines, StructOpening(struct_name)))
             ELSE IF ~in_struct
             THEN StructLoop(struct_name, lines, k + 1, in_struct, struct_lines)
             ELSE IF Contains(line, <<"}",";">>)
             THEN [kind |-> "ok", val |-> Append(struct_lines, StructClosing)]
             ELSE IF Contains(line, <<"/","/">>) /\ Contains(line, <<"0","x">>)
             THEN LET field_line == convert_struct_field(line)
                  IN  IF field_line.kind = "raise"
                      THEN [kind |-> "raise", val |-> <<field_line.val>>]
                      ELSE StructLoop(struct_name, lines, k + 1, in_struct,
                               IF Truthy(field_line)
                               THEN Append(struct_lines, field_line.val)
                               ELSE struct_lines)
             ELSE StructLoop(struct_name, lines, k + 1, in_struct, struct_lines)

\* HPPConverter.process_struct_file; exists tells whether the sibling file
\* <struct_name.lower()>.hpp is there, lines is what readlines() gives
process_struct_file(struct_name, exists, lines) ==
    IF ~exists THEN [kind |-> "ok", val |-> <<>>]
    ELSE StructLoop(struct_name, lines, 1, FALSE, <<>>)

\* the struct name of the drawn calls
StructName == <<"F","s","t","r","u","c","t","_","P","o","s">>

\* the lines the struct files are made of
StructLineSet ==
    { <<"s","t","r","u","c","t"," ","F","s","t","r","u","c","t","_","P","o","s","\n">>,
      <<"{","\n">>,
      <<" "," "," "," ","f","l","o","a","t"," ","X","_","2",";"," ","/","/"," ","0","x","0","0","0","0","\n">>,
      <<" "," "," "," ","F","G","u","i","d"," ","I","d",";"," ","/","/"," ","0","x","0","0","1","0","\n">>,
      <<" "," "," "," ","T","A","r","r","a","y","<",">"," ","T","a","g","s",";"," ","/","/"," ","0","x","0","0","2","0","\n">>,
      <<"}",";","\n">> }

\* the drawn calls: the sibling file is absent, or holds up to MaxLines lines
StructInputs ==
    { [struct_name |-> StructName, exists |-> e, lines |-> ls] :
        e \in BOOLEAN, ls \in SeqsUpTo(StructLineSet, MaxLines) }

InitStruct ==
    /\ input \in StructInputs
    /\ result = [op |-> "", kind |-> "", val |-> <<>>]
    /\ pc = "ready"
    /\ classes = EmptyDict
    /\ structs = EmptyDict
    /\ enums = EmptyDict
    /\ dependencies = EmptyDict
    /\ depOrder = <<>>
    /\ processed = {}
    /\ ordered_content = EmptyDict
    /\ scans = 0
    /\ emitLog = <<>>
    /\ nfiles = 0

\* a call of process_struct_file(struct_name, input_dir)
ProcessStructFile ==
    /\ pc = "ready"
    /\ result' = Returned("process_struct_file",
                          process_struct_file(input.struct_name, input.exists,
                                              input.lines))
    /\ pc' = "done"
    /\ UNCHANGED <<consVars, input>>

StructNext == ProcessStructFile

SpecStruct == InitStruct /\ [][StructNext]_vars

---------------------------------------------------------------------------
(* HeaderConsolidator: classification *)

\* self.module_categories, in the order of the dict literal
ModuleCategories ==
    << [category |-> <<"G","a","m","e","p","l","a","y">>,
        keywords |-> <<<<"C","h","a","r","a","c","t","e","r">>, <<"P","l","a","y","e","r">>, <<"G","a","m","e">>, <<"S","a","v","e">>, <<"I","n","v","e","n","t","o","r","y">>>>],
       [category |-> <<"U","I">>,       keywords |-> <<<<"H","U","D">>, <<"M","e","n","u">>, <<"W","i","d","g","e","t">>>>],
       [category |-> <<"P","r","o","p","s">>,    keywords |-> <<<<"I","t","e","m">>, <<"P","r","o","p">>, <<"C","o","n","t","a","i","n","e","r">>>>],
       [category |-> <<"S","y","s","t","e","m","s">>,  keywords |-> <<<<"D","a","y">>, <<"N","i","g","h","t">>, <<"W","e","a","t","h","e","r">>, <<"P","o","w","e","r">>>>],
       [category |-> <<"A","u","d","i","o">>,    keywords |-> <<<<"S","o","u","n","d">>, <<"M","u","s","i","c">>, <<"V","o","i","c","e">>>>],
       [category |-> <<"P","h","y","s","i","c","s">>,  keywords |-> <<<<"P","h","y","s","i","c","s">>, <<"C","o","l","l","i","s","i","o","n">>>>] >>

\* the default module of determine_module
DefaultModule == <<"G","a","m","e">>

\* keyword.lower(), for every keyword of the table
LowerKeywords ==
    [i \in 1..Len(ModuleCategories) |->
        [k \in 1..Len(ModuleCategories[i].keywords) |->
            Lower(ModuleCategories[i].keywords[k])]]

\* the table as pairs <<index of the category, lowered keyword>>
KeywordPairs ==
    UNION {{<<i, LowerKeywords[i][k]>> : k \in 1..Len(LowerKeywords[i])} :
              i \in 1..Len(ModuleCategories)}
KeywordHeads == {e[2][1] : e \in KeywordPairs}
KeywordsByHead == [c \in KeywordHeads |-> {e \in KeywordPairs : e[2][1] = c}]

\* the categories i with any(keyword.lower() in content.lower() for keyword
\* in keywords); lc is content.lower().  The substring search looks, at each
\* position, only at the keywords that begin with the character found there.
MatchingCategories(lc) ==
    UNION {{e[1] : e \in {x \in KeywordsByHead[lc[p]] : At(lc, p, x[2])}} :
              p \in {q \in 1..Len(lc) : lc[q] \in KeywordHeads}}

\* the first category, in table order, with a keyword in lc; 0 when there is none
FirstCategory(lc) ==
    LET hits == MatchingCategories(lc)
    IN  IF hits = {} THEN 0 ELSE Min(hits)

\* HeaderConsolidator.determine_module
determine_module(content) ==
    LET first == FirstCategory(Lower(content))
    IN  IF first = 0 THEN DefaultModule ELSE ModuleCategories[first].category

---------------------------------------------------------------------------
(* HeaderConsolidator: the patterns of lines 31-34 *)

\* a match object: start and end are 1-based, end is exclusive; a group that
\* did not take part (None) is the empty string, which no group can match
NoMatch == [ok |-> FALSE, start |-> 0, end |-> 0, g1 |-> <<>>, g2 |-> <<>>]
Match(i, e, a, b) == [ok |-> TRUE, start |-> i, end |-> e, g1 |-> a, g2 |-> b]

\* class_pattern, class\s+(\w+)(?:\s*:\s*public\s+(\w+))?, tried at position i.
\* Every repetition is followed by something its characters cannot match, so
\* the greedy choice is the only one.
ClassMatchAt(s, i) ==
    LET kwEnd   == i + 5
        wsEnd   == SpanEnd(s, kwEnd, SpaceChars)
        nameEnd == SpanEnd(s, wsEnd, WordChars)
        colon   == SpanEnd(s, nameEnd, SpaceChars)
        pub     == SpanEnd(s, colon + 1, SpaceChars)
        pubEnd  == pub + 6
        parent  == SpanEnd(s, pubEnd, SpaceChars)
        parEnd  == SpanEnd(s, parent, WordChars)
    IN  IF ~(At(s, i, <<"c","l","a","s","s">>) /\ wsEnd > kwEnd /\ nameEnd > wsEnd) THEN NoMatch
        ELSE IF /\ At(s, colon, <<":">>)
                /\ At(s, pub, <<"p","u","b","l","i","c">>)
                /\ parent > pubEnd
                /\ parEnd > parent
             THEN Match(i, parEnd, SubSeq(s, wsEnd, nameEnd - 1),
                        SubSeq(s, parent, parEnd - 1))
             ELSE Match(i, nameEnd, SubSeq(s, wsEnd, nameEnd - 1), <<>>)

\* struct_pattern, struct\s+(\w+)
StructMatchAt(s, i) ==
    LET kwEnd   == i + 6
        wsEnd   == SpanEnd(s, kwEnd, SpaceChars)
        nameEnd == SpanEnd(s, wsEnd, WordChars)
    IN  IF At(s, i, <<"s","t","r","u","c","t">>) /\ wsEnd > kwEnd /\ nameEnd > wsEnd
        THEN Match(i, nameEnd, SubSeq(s, wsEnd, nameEnd - 1), <<>>)
        ELSE NoMatch

\* enum_pattern, enum\s+(?:class\s+)?(\w+): the optional group is tried first;
\* when no name follows it, the word class itself is taken as the name
EnumMatchAt(s, i) ==
    LET kwEnd   == i + 4
        wsEnd   == SpanEnd(s, kwEnd, SpaceChars)
        clsEnd  == wsEnd + 5
        ws2End  == SpanEnd(s, clsEnd, SpaceChars)
        n2End   == SpanEnd(s, ws2End, WordChars)
        n1End   == SpanEnd(s, wsEnd, WordChars)
    IN  IF ~(At(s, i, <<"e","n","u","m">>) /\ wsEnd > kwEnd) THEN NoMatch
        ELSE IF At(s, wsEnd, <<"c","l","a","s","s">>) /\ ws2End > clsEnd /\ n2End > ws2End
             THEN Match(i, n2End, SubSeq(s, ws2End, n2End - 1), <<>>)
        ELSE IF n1End > wsEnd
             THEN Match(i, n1End, SubSeq(s, wsEnd, n1End - 1), <<>>)
        ELSE NoMatch

\* position of the first comma at or after i; Len(s) + 1 when there is none
RECURSIVE NextComma(_, _)
NextComma(s, i) ==
    IF i > Len(s) \/ s[i] = "," THEN i ELSE NextComma(s, i + 1)

\* field_pattern, \s*FIELD\((0x[0-9A-F]+),\s*([^,]+),\s*(\w+)\);  g1 is the
\* second group (the type).  [^,]+ ends at the next comma; when only white
\* space precedes that comma, \s* gives its last character back to the group.
FieldMatchAt(s, i) ==
    LET kw      == SpanEnd(s, i, SpaceChars)
        hex     == kw + 8
        hexEnd  == SpanEnd(s, hex, HexUpper)
        tyWs    == SpanEnd(s, hexEnd + 1, SpaceChars)
        comma   == NextComma(s, hexEnd + 1)
        tyStart == IF comma = tyWs THEN tyWs - 1 ELSE tyWs
        name    == SpanEnd(s, comma + 1, SpaceChars)
        nameEnd == SpanEnd(s, name, WordChars)
    IN  IF /\ At(s, kw, <<"F","I","E","L","D","(","0","x">>)
           /\ hexEnd > hex
           /\ At(s, hexEnd, <<",">>)
           /\ comma <= Len(s)
           /\ tyStart > hexEnd
           /\ nameEnd > name
           /\ At(s, nameEnd, <<")",";">>)
        THEN Match(i, nameEnd + 2, SubSeq(s, tyStart, comma - 1), <<>>)
        ELSE NoMatch

MatchAt(kind, s, i) ==
    CASE kind = "class"  -> ClassMatchAt(s, i)
      [] kind = "struct" -> StructMatchAt(s, i)
      [] kind = "enum"   -> EnumMatchAt(s, i)
      [] kind = "field"  -> FieldMatchAt(s, i)

\* pattern.finditer(s) from position i on: the leftmost match, then the
\* matches that follow its end
RECURSIVE FindIter(_, _, _)
FindIter(kind, s, i) ==
    LET starts == {j \in i..Len(s) : MatchAt(kind, s, j).ok}
    IN  IF starts = {} THEN <<>>
        ELSE <<MatchAt(kind, s, Min(starts))>>
                 \o FindIter(kind, s, MatchAt(kind, s, Min(starts)).end)

---------------------------------------------------------------------------
(* HeaderConsolidator.extract_block *)

\* the return value None
NoBlock == [found |-> FALSE, text |-> <<>>]

\* the for loop of lines 135-146, from the k-th line on
RECURSIVE ExtractLoop(_, _, _, _, _)
ExtractLoop(lines, k, brace_count, found_start, block_lines) ==
    IF k > Len(lines) THEN NoBlock
    ELSE LET line   == lines[k]
             found  == found_start \/ Count(line, "{") > 0
             count  == brace_count + Count(line, "{") - Count(line, "}")
             block  == IF found THEN Append(block_lines, line) ELSE block_lines
         IN  IF found /\ count = 0
             THEN [found |-> TRUE, text |-> JoinLines(block)]
             ELSE ExtractLoop(lines, k + 1, count, found, block)

\* HeaderConsolidator.extract_block; start_pos is 1-based here
extract_block(content, start_pos) ==
    ExtractLoop(SplitLines(Drop(content, start_pos)), 1, 0, FALSE, <<>>)

\* the lines the extract_block inputs are made of
BlockLineSet ==
    { <<"s","t","r","u","c","t"," ","B"," ","{">>, <<" ","i","n","t"," ","x",";">>, <<"}",";">>, <<"c","l","a","s","s"," ","A",";"," ","}">>, <<"{"," ","}">>, <<"}","}"," ","{">> }

\* the drawn inputs: a text of up to MaxLines lines and a start position
BlockInputs ==
    { [content |-> JoinLines(ls), start_pos |-> p] :
        ls \in SeqsUpTo(BlockLineSet, MaxLines) \ {<<>>}, p \in 0..MaxStart }

InitBlock ==
    /\ input \in BlockInputs
    /\ result = [op |-> "", kind |-> "", val |-> <<>>]
    /\ pc = "ready"
    /\ classes = EmptyDict
    /\ structs = EmptyDict
    /\ enums = EmptyDict
    /\ dependencies = EmptyDict
    /\ depOrder = <<>>
    /\ processed = {}
    /\ ordered_content = EmptyDict
    /\ scans = 0
    /\ emitLog = <<>>
    /\ nfiles = 0

\* a call of extract_block(content, start_pos)
ExtractBlock ==
    /\ pc = "ready"
    /\ LET r == extract_block(input.content, input.start_pos + 1)
       IN  result' = [op |-> "extract_block",
                      kind |-> IF r.found THEN "ok" ELSE "none",
                      val |-> r.text]
    /\ pc' = "done"
    /\ UNCHANGED <<consVars, input>>

BlockNext == ExtractBlock

SpecBlock == InitBlock /\ [][BlockNext]_vars

---------------------------------------------------------------------------
(* HeaderConsolidator.extract_dependencies *)

\* str.strip()
RECURSIVE LStripSpace(_)
LStripSpace(s) ==
    IF Len(s) > 0 /\ s[1] \in SpaceChars THEN LStripSpace(Tail(s)) ELSE s
RECURSIVE RStripSpace(_)
RStripSpace(s) ==
    IF Len(s) > 0 /\ s[Len(s)] \in SpaceChars
    THEN RStripSpace(SubSeq(s, 1, Len(s) - 1)) ELSE s
Strip(s) == RStripSpace(LStripSpace(s))

\* re.sub(r'<.*>', '', s): from the first < that has a > later on its
\* line to the last > of that line, repeated on what follows
RECURSIVE RemoveTemplateArgs(_)
RemoveTemplateArgs(s) ==
    LET closes(i) == {j \in (i + 1)..Len(s) :
                         s[j] = ">" /\ \A k \in (i + 1)..(j - 1) : s[k] # "\n"}
        opens == {i \in 1..Len(s) : s[i] = "<" /\ closes(i) # {}}
    IN  IF opens = {} THEN s
        ELSE LET i == CHOOSE x \in opens : \A y \in opens : x <= y
                 j == CHOOSE x \in closes(i) : \A y \in closes(i) : y <= x
             IN  SubSeq(s, 1, i - 1) \o RemoveTemplateArgs(Drop(s, j + 1))

\* the names line 81 does not count as dependencies
PrimitiveTypes == {<<"b","o","o","l">>, <<"f","l","o","a","t">>, <<"i","n","t","3","2","_","t">>, <<"u","i","n","t","3","2","_","t">>}

\* lines 74-80: the base type name of a matched field type
FieldBaseType(group2) ==
    RStrip(RemoveTemplateArgs(Replace(Strip(group2), <<"R","C",":",":","U","n","r","e","a","l",":",":">>, <<>>)), "*")

\* HeaderConsolidator.extract_dependencies
extract_dependencies(content) ==
    LET cm == FindIter("class", content, 1)
        fm == FindIter("field", content, 1)
    IN  {cm[i].g2 : i \in {k \in 1..Len(cm) : cm[k].g2 # <<>>}}
        \cup ({FieldBaseType(fm[i].g1) : i \in 1..Len(fm)} \ PrimitiveTypes)

---------------------------------------------------------------------------
(* HeaderConsolidator.process_file *)

\* self.engine_modules
EngineModules ==
    {<<"E","n","g","i","n","e">>, <<"C","o","r","e","U","O","b","j","e","c","t">>, <<"U","M","G">>, <<"S","l","a","t","e">>, <<"S","l","a","t","e","C","o","r","e">>, <<"I","n","p","u","t","C","o","r","e">>,
     <<"C","o","n","t","r","o","l","R","i","g">>, <<"N","i","a","g","a","r","a">>, <<"N","a","v","i","g","a","t","i","o","n","S","y","s","t","e","m">>, <<"A","I","M","o","d","u","l","e">>, <<"G","a","m","e","p","l","a","y","T","a","g","s">>,
     <<"P","h","y","s","i","c","s","C","o","r","e">>, <<"A","n","i","m","G","r","a","p","h","R","u","n","t","i","m","e">>, <<"M","o","v","i","e","S","c","e","n","e">>, <<"L","e","v","e","l","S","e","q","u","e","n","c","e">>,
     <<"G","a","m","e","p","l","a","y","T","a","s","k","s">>, <<"A","u","d","i","o","M","i","x","e","r">>, <<"P","a","p","e","r","2","D">>, <<"C","i","n","e","m","a","t","i","c","C","a","m","e","r","a">>,
     <<"A","s","s","e","t","R","e","g","i","s","t","r","y">>, <<"A","u","g","m","e","n","t","e","d","R","e","a","l","i","t","y">>, <<"M","R","M","e","s","h">>, <<"G","e","o","m","e","t","r","y","C","o","l","l","e","c","t","i","o","n","E","n","g","i","n","e">>,
     <<"C","h","a","o","s","S","o","l","v","e","r","E","n","g","i","n","e">>, <<"D","a","t","a","s","m","i","t","h","C","o","n","t","e","n","t">>, <<"D","a","t","a","s","m","i","t","h","C","o","r","e">>,
     <<"G","e","o","m","e","t","r","y","C","o","l","l","e","c","t","i","o","n","S","i","m","u","l","a","t","i","o","n","C","o","r","e">>}

\* clean_identifier, the local function of process_file
clean_identifier(name) ==
    IF Len(name) > 0 /\ name[1] \in Digits THEN <<"C">> \o name ELSE name

\* d[key] = value
DictPut(d, key, value) ==
    [n \in DOMAIN d \cup {key} |-> IF n = key THEN value ELSE d[n]]
\* the insertion order after d[key] = value
OrderPut(order, d, key) == IF key \in DOMAIN d THEN order ELSE Append(order, key)

\* lines 105-112, for the matches ms[k..]; st holds classes, dependencies
\* and the insertion order of dependencies
RECURSIVE StoreClasses(_, _, _, _)
StoreClasses(content, ms, k, st) ==
    IF k > Len(ms) THEN st
    ELSE LET class_name == clean_identifier(ms[k].g1)
             block == extract_block(content, ms[k].start)
             class_content == Replace(block.text, ms[k].g1, class_name)
         IN  IF block.found
             THEN StoreClasses(content, ms, k + 1,
                      [classes |-> DictPut(st.classes, class_name, class_content),
                       dependencies |-> DictPut(st.dependencies, class_name,
                                            extract_dependencies(class_content)),
                       depOrder |-> OrderPut(st.depOrder, st.dependencies, class_name)])
             ELSE StoreClasses(content, ms, k + 1, st)

\* lines 114-119
RECURSIVE StoreStructs(_, _, _, _)
StoreStructs(content, ms, k, d) ==
    IF k > Len(ms) THEN d
    ELSE LET block == extract_block(content, ms[k].start)
         IN  IF StartsWith(ms[k].g1, <<"F","s","t","r","u","c","t","_">>) /\ block.found
             THEN StoreStructs(content, ms, k + 1, DictPut(d, ms[k].g1, block.text))
             ELSE StoreStructs(content, ms, k + 1, d)

\* lines 121-125
RECURSIVE StoreEnums(_, _, _, _)
StoreEnums(content, ms, k, d) ==
    IF k > Len(ms) THEN d
    ELSE LET block == extract_block(content, ms[k].start)
         IN  IF block.found
             THEN StoreEnums(content, ms, k + 1, DictPut(d, ms[k].g1, block.text))
             ELSE StoreEnums(content, ms, k + 1, d)

\* line 92
HasEngineType(content) == \E module \in EngineModules : Contains(content, module)

---------------------------------------------------------------------------
(* HeaderConsolidator.sort_declarations *)

GroupEnums == <<"E","n","u","m","s">>
GroupStructs == <<"S","t","r","u","c","t","s">>

\* ordered_content[module].append(content) on a defaultdict(list)
AppendTo(oc, module, content) ==
    [g \in DOMAIN oc \cup {module} |->
        IF g = module
        THEN (IF g \in DOMAIN oc THEN oc[g] ELSE <<>>) \o <<content>>
        ELSE oc[g]]

\* for name, content in sorted(d.items()): ordered_content[group].append(content)
RECURSIVE AppendSorted(_, _, _, _)
AppendSorted(oc, group, d, names) ==
    IF Len(names) = 0 THEN oc
    ELSE AppendSorted(AppendTo(oc, group, d[names[1]]), group, d, Tail(names))

\* a flush that stops after the first remaining class
FlushSorted_FirstOnly(oc, d, names) ==
    IF Len(names) = 0 THEN oc
    ELSE AppendTo(oc, determine_module(d[names[1]]), d[names[1]])

\* a flush that puts every remaining class into the default module
FlushSorted_DefaultModule(oc, d, names) == AppendSorted(oc, DefaultModule, d, names)

\* the for loop of the else branch: every remaining class, sorted by name,
\* into the module of its own content
RECURSIVE FlushSorted(_, _, _)
FlushSorted(oc, d, names) ==
    IF Len(names) = 0 THEN oc
    ELSE FlushSorted(AppendTo(oc, determine_module(d[names[1]]), d[names[1]]),
                     d, Tail(names))

\* the test without the comparison with the processed set
Ready_IgnoresDeps(name, cls, deps, proc) == name \in DOMAIN cls

\* the test of line 168, after the skip of line 166
Ready(name, cls, deps, proc) == name \in DOMAIN cls /\ deps[name] \subseteq proc

\* a for loop that looks at the first key of dependencies only
FirstReady_FirstKeyOnly(order, cls, deps, proc) ==
    IF Len(order) > 0 /\ Ready(order[1], cls, deps, proc) THEN 1 ELSE 0

\* the first key of dependencies, in insertion order, that passes the test:
\* its index in depOrder, or 0 when the for loop runs to its end
FirstReady(order, cls, deps, proc) ==
    IF \E i \in 1..Len(order) : Ready(order[i], cls, deps, proc)
    THEN CHOOSE i \in 1..Len(order) :
             /\ Ready(order[i], cls, deps, proc)
             /\ \A j \in 1..(i - 1) : ~Ready(order[j], cls, deps, proc)
    ELSE 0

\* a del that removes nothing
DictDel_Keeps(d, key) == d

\* del d[key]
DictDel(d, key) == [n \in DOMAIN d \ {key} |-> d[n]]

\* lines 152-163: enums, then structs, each sorted by name; processed = set()
SortBegin ==
    /\ pc = "loaded"
    /\ ordered_content' =
           AppendSorted(AppendSorted(EmptyDict, GroupEnums, enums, Sorted(DOMAIN enums)),
                        GroupStructs, structs, Sorted(DOMAIN structs))
    /\ processed' = {}
    /\ pc' = "scheduling"
    /\ UNCHANGED <<classes, structs, enums, dependencies, depOrder, scans,
                   emitLog, nfiles, input, result>>

\* lines 164-173: one scan that finds a class whose dependencies are all processed
ScanEmit ==
    /\ pc = "scheduling"
    /\ DOMAIN classes # {}
    /\ FirstReady(depOrder, classes, dependencies, processed) # 0
    /\ LET name == depOrder[FirstReady(depOrder, classes, dependencies, processed)]
           module == determine_module(classes[name])
       IN  /\ ordered_content' = AppendTo(ordered_content, module, classes[name])
           /\ processed' = processed \cup {name}
           /\ classes' = DictDel(classes, name)
           /\ emitLog' = Append(emitLog, [name |-> name, branch |-> "normal",
                                          scan |-> scans + 1, module |-> module])
    /\ scans' = scans + 1
    /\ UNCHANGED <<pc, structs, enums, dependencies, depOrder, nfiles, input, result>>

\* lines 164-168, 174: one scan that runs to its end without emitting
ScanDeadlock ==
    /\ pc = "scheduling"
    /\ DOMAIN classes # {}
    /\ FirstReady(depOrder, classes, dependencies, processed) = 0
    /\ scans' = scans + 1
    /\ pc' = "deadlocked"
    /\ UNCHANGED <<classes, structs, enums, dependencies, depOrder, processed,
                   ordered_content, emitLog, nfiles, input, result>>

\* the emissions of the else branch, in order
FlushLog(names, d, scan) ==
    [i \in 1..Len(names) |->
        [name |-> names[i], branch |-> "flush", scan |-> scan,
         module |-> determine_module(d[names[i]])]]

\* lines 175-179: the remaining classes, sorted by name; then break
Flush ==
    /\ pc = "deadlocked"
    /\ ordered_content' = FlushSorted(ordered_content, classes, Sorted(DOMAIN classes))
    /\ emitLog' = emitLog \o FlushLog(Sorted(DOMAIN classes), classes, scans)
    /\ pc' = "done"
    /\ UNCHANGED <<classes, structs, enums, dependencies, depOrder, processed,
                   scans, nfiles, input, result>>

\* lines 164, 181: the pool is empty, the while loop ends
SortReturn ==
    /\ pc = "scheduling"
    /\ DOMAIN classes = {}
    /\ pc' = "done"
    /\ UNCHANGED <<classes, structs, enums, dependencies, depOrder, processed,
                   ordered_content, scans, emitLog, nfiles, input, result>>

SortNext == SortBegin \/ ScanEmit \/ ScanDeadlock \/ Flush \/ SortReturn

---------------------------------------------------------------------------
(* Pools of pending classes for sort_declarations *)

\* class names of the drawn pools
NameList == <<<<"H","u","d">>, <<"I","t","e","m">>, <<"Z","e","d">>, <<"A","l","l","y">>, <<"B","o","l","t">>>>
\* a type name that no input defines
UndefinedName == <<"B","a","s","e">>

\* the text of a converted class whose fields have the types deps
FieldLine(type) == <<" "," "," "," ","F","I","E","L","D","(","0","x","1","0",","," ">> \o type \o <<"*",","," ","m",")",";","\n">>
SynthBody(name, deps) ==
    <<"c","l","a","s","s"," ">> \o name \o <<" ","{","\n">>
        \o Concat([i \in 1..Cardinality(deps) |-> FieldLine(Sorted(deps)[i])])
        \o <<"}",";">>

PoolNames(k) == {NameList[i] : i \in 1..k}
\* the dependency graphs over a pool of k classes: sets of edges <<class, name>>
EdgeSets[k \in 0..MaxClasses] ==
    {E \in SUBSET (PoolNames(k) \X (PoolNames(k) \cup {UndefinedName})) :
        Cardinality(E) <= MaxEdges}

\* the state process_file leaves for a file that holds the classes of order,
\* in that order, with the dependencies E
InitSort ==
    \E k \in 0..MaxClasses :
        \E order \in Perms(PoolNames(k)) :
            \E E \in EdgeSets[k] :
                LET deps == [n \in PoolNames(k) |-> {e[2] : e \in {x \in E : x[1] = n}}]
                IN  /\ classes = [n \in PoolNames(k) |-> SynthBody(n, deps[n])]
                    /\ dependencies = deps
                    /\ depOrder = order
                    /\ structs = EmptyDict
                    /\ enums = EmptyDict
                    /\ processed = {}
                    /\ ordered_content = EmptyDict
                    /\ scans = 0
                    /\ emitLog = <<>>
                    /\ nfiles = 1
                    /\ input = <<>>
                    /\ result = <<>>
                    /\ pc = "loaded"

SpecSort == InitSort /\ [][SortNext]_vars

---------------------------------------------------------------------------
(* consolidate_headers: process_file for every file, then sort_declarations *)

\* the texts of the input files
FileHud     == <<"c","l","a","s","s"," ","H","u","d"," ","{","\n"," "," "," "," ","F","I","E","L","D","(","0","x","1","0",","," ","I","t","e","m","*",","," ","m",")",";","\n","}",";","\n">>
FileItem    == <<"c","l","a","s","s"," ","I","t","e","m"," ","{","\n"," "," "," "," ","F","I","E","L","D","(","0","x","1","8",","," ","R","C",":",":","U","n","r","e","a","l",":",":","T","A","r","r","a","y","<","B","o","l","t","*",">",","," ","m",")",";","\n"," "," "," "," ","F","I","E","L","D","(","0","x","2","8",","," ","f","l","o","a","t",","," ","w",")",";","\n","}",";","\n">>
FilePair    == <<"c","l","a","s","s"," ","Z","e","d"," ",":"," ","p","u","b","l","i","c"," ","A","l","l","y"," ","{","\n"," "," "," "," ","F","I","E","L","D","(","0","x","3","0",","," ","H","u","d","*",","," ","m",")",";","\n","}",";","\n","\n","c","l","a","s","s"," ","A","l","l","y"," ","{","\n","}",";","\n">>
FileBelow   == <<"c","l","a","s","s"," ","B","o","l","t"," ",":"," ","p","u","b","l","i","c"," ","I","t","e","m","\n","{","\n"," "," "," "," ","F","I","E","L","D","(","0","x","3","0",","," ","b","o","o","l",","," ","b",")",";","\n","}",";","\n">>
FileDigit   == <<"c","l","a","s","s"," ","9","L","i","v","e","s"," ","{","\n"," "," "," "," ","F","I","E","L","D","(","0","x","8",","," ","9","L","i","v","e","s","*",","," ","m",")",";","\n","}",";","\n">>
FileEnumCls == <<"e","n","u","m"," ","c","l","a","s","s"," ","E","M","o","d","e"," ","{","\n"," "," "," "," ","O","f","f",",","\n"," "," "," "," ","O","n","\n","}",";","\n">>
FileEnum    == <<"e","n","u","m"," ","E","K","i","n","d"," ","{","\n"," "," "," "," ","A","\n","}",";","\n">>
FileStruct  == <<"s","t","r","u","c","t"," ","F","s","t","r","u","c","t","_","P","o","s"," ","{","\n"," "," "," "," ","F","I","E","L","D","(","0","x","0",","," ","f","l","o","a","t",","," ","X",")",";","\n","}",";","\n">>
FileCut     == <<"c","l","a","s","s"," ","A","l","l","y"," ",":"," ","p","u","b","l","i","c"," ","Z","e","d"," ","{","\n"," "," "," "," ","F","I","E","L","D","(","0","x","3","0",","," ","H","u","d","*",","," ","m",")",";","\n">>
FileEngine  == <<"c","l","a","s","s"," ","P","a","n","e"," ","{","\n"," "," "," "," ","F","I","E","L","D","(","0","x","3","0",","," ","U","M","G","P","a","n","e","*",","," ","m",")",";","\n","}",";","\n">>

InputFiles == {FileHud, FileItem, FilePair, FileBelow, FileDigit, FileEnumCls,
               FileEnum, FileStruct, FileCut, FileEngine}

\* HeaderConsolidator.process_file on one file of the input (its return
\* value, the module of the whole file, is dropped by consolidate_headers)
ProcessFile ==
    /\ pc = "reading"
    /\ nfiles < MaxFiles
    /\ \E content \in InputFiles :
           IF HasEngineType(content)
           THEN UNCHANGED <<classes, structs, enums, dependencies, depOrder>>
           ELSE LET st == StoreClasses(content, FindIter("class", content, 1), 1,
                              [classes |-> classes, dependencies |-> dependencies,
                               depOrder |-> depOrder])
                IN  /\ classes' = st.classes
                    /\ dependencies' = st.dependencies
                    /\ depOrder' = st.depOrder
                    /\ structs' = StoreStructs(content, FindIter("struct", content, 1),
                                               1, structs)
                    /\ enums' = StoreEnums(content, FindIter("enum", content, 1), 1, enums)
    /\ nfiles' = nfiles + 1
    /\ UNCHANGED <<pc, processed, ordered_content, scans, emitLog, input, result>>

\* consolidate_headers, line 199: the files are read, the sort is called
CallSort ==
    /\ pc = "reading"
    /\ pc' = "loaded"
    /\ UNCHANGED <<classes, structs, enums, dependencies, depOrder, processed,
                   ordered_content, scans, emitLog, nfiles, input, result>>

\* HeaderConsolidator.__init__, lines 37-40
InitConsolidate ==
    /\ classes = EmptyDict
    /\ structs = EmptyDict
    /\ enums = EmptyDict
    /\ dependencies = EmptyDict
    /\ depOrder = <<>>
    /\ processed = {}
    /\ ordered_content = EmptyDict
    /\ scans = 0
    /\ emitLog = <<>>
    /\ nfiles = 0
    /\ input = <<>>
    /\ result = <<>>
    /\ pc = "reading"

ConsolidateNext ==
    ProcessFile \/ CallSort \/ SortBegin \/ ScanEmit \/ ScanDeadlock \/ Flush \/ SortReturn

SpecConsolidate == InitConsolidate /\ [][ConsolidateNext]_vars

---------------------------------------------------------------------------
(* Claims about sort_declarations, checked under SpecSort *)

\* the pool sort_declarations starts with: the keys of dependencies, which
\* the function never changes
StartPool == DOMAIN dependencies
\* the text a class of the start pool had in self.classes
StartBody(n) == SynthBody(n, dependencies[n])

\* positions of the emit log
LogIdx == 1..Len(emitLog)

\* C1: when a class A depends on another class B and both are emitted by the
\* normal branch, B is emitted before A, in a strictly earlier scan.
C1_DependencyEmittedEarlier ==
    \A i \in LogIdx : \A j \in LogIdx :
        ( /\ emitLog[i].branch = "normal"
          /\ emitLog[j].branch = "normal"
          /\ emitLog[i].name # emitLog[j].name
          /\ emitLog[j].name \in dependencies[emitLog[i].name] )
        => (j < i /\ emitLog[j].scan < emitLog[i].scan)

\* C1 witness: the sort has returned and the normal branch emitted a class
\* and, before it, a class it depends on.
C1_Witness ==
    /\ pc = "done"
    /\ \E i \in LogIdx : \E j \in LogIdx :
           /\ emitLog[i].branch = "normal"
           /\ emitLog[j].branch = "normal"
           /\ emitLog[i].name # emitLog[j].name
           /\ emitLog[j].name \in dependencies[emitLog[i].name]

\* whether the dependency relation, restricted to the classes of nodes, has
\* no cycle (a self-dependency is a cycle)
RECURSIVE Acyclic(_, _)
Acyclic(nodes, deps) ==
    \/ nodes = {}
    \/ \E n \in nodes : deps[n] \cap nodes = {} /\ Acyclic(nodes \ {n}, deps)

\* C2: in a pool whose dependency relation among its own classes has no
\* cycle (undefined names allowed), every class is emitted after every class
\* of the pool it depends on, and the fallback order is not used.
C2_AcyclicPoolIsOrdered ==
    Acyclic(StartPool, dependencies) =>
        /\ \A i \in LogIdx : emitLog[i].branch # "flush"
        /\ \A i \in LogIdx : \A j \in LogIdx :
               (emitLog[j].name \in dependencies[emitLog[i].name]) => j < i

\* the number of times a text was appended, over all groups
Occurrences(oc, body) ==
    Cardinality({p \in UNION {{<<g, i>> : i \in 1..Len(oc[g])} : g \in DOMAIN oc} :
                    oc[p[1]][p[2]] = body})

\* C3: when sort_declarations has returned, the text of every class of the
\* start pool has been appended exactly once, to exactly one group.
C3_EveryClassEmittedOnce ==
    pc = "done" =>
        \A n \in StartPool : Occurrences(ordered_content, StartBody(n)) = 1

\* C3 witness: the sort has returned for a pool that holds a two-class cycle.
C3_Witness ==
    /\ pc = "done"
    /\ \E a \in StartPool : \E b \in StartPool \ {a} :
           a \in dependencies[b] /\ b \in dependencies[a]

\* whether some step of sort_declarations can be taken: the guards of its actions
SortCanStep ==
    \/ pc = "loaded"
    \/ pc = "scheduling" /\ DOMAIN classes = {}
    \/ pc = "scheduling" /\ DOMAIN classes # {}
          /\ FirstReady(depOrder, classes, dependencies, processed) # 0
    \/ pc = "scheduling" /\ DOMAIN classes # {}
          /\ FirstReady(depOrder, classes, dependencies, processed) = 0
    \/ pc = "deadlocked"

\* C4: the while loop makes at most N+1 scans for a pool of N classes, and
\* the function is never stuck before it returns.
C4_ScansBounded ==
    /\ scans <= Cardinality(StartPool) + 1
    /\ (pc # "done" => SortCanStep)

\* C4 witness: the sort has returned for a pool of at least two classes with
\* a self-dependency and a dependency on an undefined name.
C4_Witness ==
    /\ pc = "done"
    /\ Cardinality(StartPool) >= 2
    /\ scans >= 1
    /\ \E n \in StartPool : n \in dependencies[n]
    /\ \E n \in StartPool : UndefinedName \in dependencies[n]

---------------------------------------------------------------------------
(* Claims about process_file followed by sort_declarations, checked under
   SpecConsolidate *)

\* the number of times a text was appended to one group
GroupCount(oc, g, body) ==
    IF g \in DOMAIN oc THEN Cardinality({i \in 1..Len(oc[g]) : oc[g][i] = body}) ELSE 0

\* every name process_file has stored a declaration under
DeclNames == DOMAIN enums \cup DOMAIN structs \cup DOMAIN dependencies

\* the number of texts emitted for the declaration name n: as an enum, as a
\* struct and as a class
Emissions(n) ==
    (IF n \in DOMAIN enums THEN GroupCount(ordered_content, GroupEnums, enums[n]) ELSE 0)
    + (IF n \in DOMAIN structs
       THEN GroupCount(ordered_content, GroupStructs, structs[n]) ELSE 0)
    + Cardinality({i \in LogIdx : emitLog[i].name = n})

\* C5: after process_file calls and sort_declarations, every declaration name
\* has been emitted at most once over all output groups.
C5_NoNameEmittedTwice ==
    pc = "done" => \A n \in DeclNames : Emissions(n) <= 1

---------------------------------------------------------------------------
(* Claims about the converter, checked under SpecConvert *)

FieldOps == {"convert_line_to_field", "convert_struct_field"}

\* the field line given to the field converters
InputLine == LineOf(input.token, input.name, input.offset)

\* C6: convert_type returns a type expression or the ignore sentinel for
\* every token and never ends in an error, and so do the field converters
\* that call it.
C6_ConvertTypeIsTotal ==
    (pc = "done" /\ result.op \in FieldOps \cup {"convert_type"})
        => result.kind \in {"ok", "none"}

\* the name written in a FIELD(...) line
EmittedFieldName(text) ==
    SubSeq(text, SpanStart(text, Len(text) - 3, WordChars), Len(text) - 3)

\* C7: no generated identifier begins with a digit: neither the name
\* clean_class_name returns for a class name, nor the name of a FIELD line.
C7_NoIdentifierStartsWithDigit ==
    pc = "done" =>
        /\ ( /\ result.op = "clean_class_name"
              /\ Len(input.token) > 0
              /\ \A i \in 1..Len(input.token) : input.token[i] \in WordChars )
            => (Len(result.val) > 0 /\ result.val[1] \notin Digits)
        /\ (result.op \in FieldOps /\ result.kind = "ok")
            => EmittedFieldName(result.val)[1] \notin Digits

\* C8: for a line that matches the field pattern and whose type converts,
\* both field converters emit FIELD(<offset>, <converted type>, <name>) with
\* the GUID and numeric suffixes of the name removed (as clean_name does).
C8_BothConvertersCleanTheName ==
    ( /\ pc = "done"
      /\ result.op \in FieldOps
      /\ FieldLineMatch(InputLine).ok
      /\ Truthy(convert_type(input.token)) )
    => /\ result.kind = "ok"
       /\ result.val = FieldText(input.offset, convert_type(input.token).val,
                                  clean_name(input.name))

\* whether the drawn token is an ignored type name with pointer markers,
\* nested in TArray<...> and TSubclassOf<...> wrappers
IgnoredInput ==
    /\ input.base \in IgnoredTypes
    /\ input.closed
    /\ \A i \in 1..Len(input.wraps) : input.wraps[i] \in {<<"T","A","r","r","a","y">>, <<"T","S","u","b","c","l","a","s","s","O","f">>}

\* C10: for an ignored type name, with pointer markers and nested in any
\* wrappers, convert_type returns the ignore sentinel and the field
\* converters emit no FIELD line.
C10_IgnoredTypesAreDropped ==
    (pc = "done" /\ IgnoredInput /\ result.op \in FieldOps \cup {"convert_type"})
        => result.kind = "none"

\* C10 witness: a field converter has dropped a line whose type is an ignored
\* name with a pointer marker inside two different wrappers.
C10_Witness ==
    /\ pc = "done"
    /\ IgnoredInput
    /\ result.op = "convert_line_to_field"
    /\ FieldLineMatch(InputLine).ok
    /\ input.stars = 1
    /\ Len(input.wraps) = 2
    /\ input.wraps[1] # input.wraps[2]
    /\ result.kind = "none"

---------------------------------------------------------------------------
(* Claims about extract_block, checked under SpecBlock *)

\* the lines that follow the start position
LinesAfterStart == SplitLines(Drop(input.content, input.start_pos + 1))

\* opening minus closing braces of lines a..b
RECURSIVE NetDepth(_, _, _)
NetDepth(lines, a, b) ==
    IF a > b THEN 0
    ELSE Count(lines[a], "{") - Count(lines[a], "}") + NetDepth(lines, a + 1, b)

\* the lines that contain an opening brace
OpeningLines == {k \in 1..Len(LinesAfterStart) : Count(LinesAfterStart[k], "{") > 0}

\* the lines, from the first opening line on, at which the depth counted from
\* that line is back at zero
ClosingLines ==
    IF OpeningLines = {} THEN {}
    ELSE {k \in Min(OpeningLines)..Len(LinesAfterStart) :
              NetDepth(LinesAfterStart, Min(OpeningLines), k) = 0}

\* C9: extract_block returns the lines from the first line with an opening
\* brace through the first line where the depth is back at zero, and no block
\* when the text ends before that; a returned block has as many opening as
\* closing braces.
C9_BlockIsFirstBalancedSpan ==
    pc = "done" =>
        /\ IF ClosingLines = {}
           THEN result.kind = "none"
           ELSE /\ result.kind = "ok"
                /\ result.val = JoinLines(SubSeq(LinesAfterStart,
                                     Min(OpeningLines), Min(ClosingLines)))
        /\ result.kind = "ok" => Count(result.val, "{") = Count(result.val, "}")

---------------------------------------------------------------------------
(* Further claims about the converter, checked under SpecConvert *)

\* C11: type conversion is idempotent: when convert_type returns a type for a
\* token, converting that type again returns it unchanged.
C11_ConvertTypeIsIdempotent ==
    (pc = "done" /\ result.op = "convert_type" /\ result.kind = "ok")
        => convert_type(result.val) = Ok(result.val)

---------------------------------------------------------------------------
(* Further claims about sort_declarations, checked under SpecSort *)

\* the emissions a step adds to the log
NewEmissions == SubSeq(emitLog', Len(emitLog) + 1, Len(emitLog'))

\* the bodies of the logged emissions that went to group g, in log order
BodiesFor(log, g, d) ==
    LET mine == SelectSeq(log, LAMBDA e : e.module = g)
    IN  [i \in 1..Len(mine) |-> d[mine[i].name]]

\* what a group held before a step
GroupBefore(g) == IF g \in DOMAIN ordered_content THEN ordered_content[g] ELSE <<>>

\* C12: the bulk flush happens only when no pending class has all of its
\* dependencies in the processed set; it appends every pending class, in
\* ascending order of name, and ends the function: no scan and no emission
\* follows it, and scheduling is never entered again.
C12_FlushOnlyOnDeadlockThenDone ==
    [][ /\ pc = "deadlocked" =>
            /\ \A n \in DOMAIN classes : ~(dependencies[n] \subseteq processed)
            /\ pc' = "done"
            /\ scans' = scans
            /\ Len(NewEmissions) = Cardinality(DOMAIN classes)
            /\ {NewEmissions[i].name : i \in 1..Len(NewEmissions)} = DOMAIN classes
            /\ \A i \in 1..Len(NewEmissions) : \A j \in 1..Len(NewEmissions) :
                   i < j => StrLess(NewEmissions[i].name, NewEmissions[j].name)
            /\ \A g \in DOMAIN ordered_content' :
                   ordered_content'[g] =
                       GroupBefore(g) \o BodiesFor(NewEmissions, g, classes)
        /\ pc # "done"
        /\ pc' = "scheduling" => pc \in {"loaded", "scheduling"}
      ]_vars

\* position of a name in the insertion order of dependencies
OrderPos(n) == CHOOSE i \in 1..Len(depOrder) : depOrder[i] = n

\* C12 witness: the function has returned after a normal emission and a flush
\* of two classes whose name order is the reverse of their insertion order.
C12_Witness ==
    /\ pc = "done"
    /\ \E i \in LogIdx : emitLog[i].branch = "normal"
    /\ \E i \in LogIdx : \E j \in LogIdx :
           /\ i < j
           /\ emitLog[i].branch = "flush"
           /\ emitLog[j].branch = "flush"
           /\ OrderPos(emitLog[i].name) > OrderPos(emitLog[j].name)

---------------------------------------------------------------------------
(* Further claims about process_file, checked under SpecConsolidate *)

\* the parents named in the headers of the complete declarations of class n
\* in the input files
DeclaredParents(n) ==
    UNION { LET ms == FindIter("class", file, 1)
            IN  {ms[k].g2 : k \in {i \in 1..Len(ms) :
                                      /\ clean_identifier(ms[i].g1) = n
                                      /\ ms[i].g2 # <<>>
                                      /\ extract_block(file, ms[i].start).found}}
          : file \in InputFiles }

\* the base types of the FIELD lines of a body, without the primitive types
FieldTypes(body) ==
    LET fm == FindIter("field", body, 1)
    IN  {FieldBaseType(fm[i].g1) : i \in 1..Len(fm)} \ PrimitiveTypes

\* C13: for every stored class, dependencies[name] is the parent named in its
\* header, if any, together with the base types of the FIELD lines of its
\* body, primitive types left out.
C13_DependenciesAreParentAndFieldTypes ==
    \A n \in DOMAIN classes :
        /\ n \in DOMAIN dependencies
        /\ dependencies[n] = DeclaredParents(n) \cup FieldTypes(classes[n])

---------------------------------------------------------------------------
(* Claims about the output groups, checked under SpecSort *)

\* whether a keyword of the i-th category occurs in the body, case ignored
HasKeyword(body, i) ==
    \E k \in 1..Len(ModuleCategories[i].keywords) :
        Contains(Lower(body), Lower(ModuleCategories[i].keywords[k]))

\* the first category of the table with a keyword in the body, else Game
ExpectedGroup(body) ==
    LET hits == {i \in 1..Len(ModuleCategories) : HasKeyword(body, i)}
    IN  IF hits = {} THEN <<"G","a","m","e">>
        ELSE ModuleCategories[CHOOSE i \in hits : \A j \in hits : i <= j].category

\* the classes of the start pool that have been emitted
EmittedClasses == {n \in StartPool : n \in processed \/ pc = "done"}

\* the groups that hold a body
GroupsHolding(body) ==
    {g \in DOMAIN ordered_content :
        \E i \in 1..Len(ordered_content[g]) : ordered_content[g][i] = body}

\* C14: every emitted class is in the group of the first category, in table
\* order, that has a keyword in its body, case ignored, and in Game when no
\* keyword occurs, whether the normal branch or the flush emitted it.
C14_ClassIsInTheGroupOfItsBody ==
    \A n \in EmittedClasses :
        GroupsHolding(StartBody(n)) = {ExpectedGroup(StartBody(n))}

\* C14 witness: the function has returned after the normal branch emitted a
\* class into one group and the flush emitted classes into two other groups.
C14_Witness ==
    /\ pc = "done"
    /\ \E i \in LogIdx : \E j \in LogIdx : \E k \in LogIdx :
           /\ emitLog[i].branch = "normal"
           /\ emitLog[j].branch = "flush"
           /\ emitLog[k].branch = "flush"
           /\ emitLog[i].module # emitLog[j].module
           /\ emitLog[i].module # emitLog[k].module
           /\ emitLog[j].module # emitLog[k].module
           /\ <<"G","a","m","e">> \in {emitLog[i].module, emitLog[j].module, emitLog[k].module}

---------------------------------------------------------------------------
(* Claims about process_struct_file, checked under SpecStruct *)

\* whether a line of the sibling file opens the struct
OpensStruct(line) == Contains(line, <<"s","t","r","u","c","t"," ">> \o input.struct_name)

\* whether a returned line is a converted FIELD line
IsFieldLine(l) == StartsWith(l, <<" "," "," "," ","F","I","E","L","D","(">>) /\ EndsWith(l, <<")",";","\n">>)

\* whether a returned list is a complete struct block
CompleteBlock(ls) ==
    /\ Len(ls) >= 2
    /\ ls[1] = <<"s","t","r","u","c","t"," ">> \o input.struct_name \o <<" ","{","\n">>
    /\ ls[Len(ls)] = <<"}",";","\n","\n">>
    /\ \A i \in 2..(Len(ls) - 1) : IsFieldLine(ls[i])

\* C15: process_struct_file returns nothing when the sibling file is absent
\* or has no line that opens the struct, and otherwise nothing or a complete
\* block: one opening line, converted FIELD lines, one closing line; it never
\* returns a block that is opened and not closed.
C15_StructBlockIsComplete ==
    pc = "done" =>
        /\ result.kind = "ok"
        /\ result.val = <<>> \/ CompleteBlock(result.val)
        /\ ( \/ ~input.exists
             \/ \A i \in 1..Len(input.lines) : ~OpensStruct(input.lines[i]) )
           => result.val = <<>>

===========================================================================
